---------------------------- MODULE Spec2Model ----------------------------
(***************************************************************************)
(* Model of fix_resources.py: a script that reads MainWindow.xaml.cs,      *)
(* inserts a GetThemeBrush helper after the end of the constructor,        *)
(* rewrites every (SolidColorBrush)Application.Current.Resources["KEY"]    *)
(* lookup into GetThemeBrush("KEY", Brushes.Gray), writes the file back    *)
(* and prints "Done".                                                      *)
(*                                                                         *)
(* A text is a sequence of lexemes.  Every lexeme is a run of characters   *)
(* that the two regular expressions, the replacement template and the      *)
(* f-string of the script treat as a unit: the literal pieces of the       *)
(* patterns, the double quote that the class [^"] excludes, the pieces of  *)
(* helper_method, and single ordinary characters.  The lexemes are         *)
(* written as the characters they stand for.  No lexeme is a proper part   *)
(* of another one in a way that lets a pattern literal begin inside one    *)
(* lexeme and end inside the next, so matching lexeme by lexeme finds      *)
(* the matches the character-level regular expressions find.               *)
(*                                                                         *)
(* The variable file is the target file as Python's text layer shows it    *)
(* (what open(path, "r").read() returns and what f.write() is handed):     *)
(* read() gives every line end as \n and write() puts \n back in the form  *)
(* of the platform, so a text written is the text a later read() returns.  *)
(***************************************************************************)
EXTENDS Integers, Sequences, FiniteSets

----------------------------------------------------------------------------
(* Lexemes *)

\* line 17: the literal `            _updateCheckTimer.Start();`
TIMER == "            _updateCheckTimer.Start();"
\* a line feed
NL == "\n"
\* line 17 / line 12: the literal `        }`
CLOSE == "        }"
\* line 34: the literal `(SolidColorBrush)Application.Current.Resources`
CAST == "(SolidColorBrush)Application.Current.Resources"
\* lines 27, 34: `[`, `"` and `]`
LB == "["
QUOTE == "\""
RB == "]"
\* line 30: the two literal parts of the f-string around `"{key}"`
GET == "GetThemeBrush("
GRAY == ", Brushes.Gray)"
\* a backslash and two ordinary characters, as they may occur in a key
BSL == "\\"
CHA == "A"
CHB == "B"

\* a helper whose body uses the lookup that line 35 rewrites
helper_method_with_lookup ==
    << NL,
       "        private SolidColorBrush ", GET, "string resourceKey, Brush fallback)", NL,
       "        {", NL,
       "            var brush = ", CAST, LB, QUOTE, "resourceKey", QUOTE, RB, ";", NL,
       "            return brush ?? (fallback as SolidColorBrush) ?? Brushes.Gray;", NL,
       CLOSE, NL,
       NL >>

\* lines 7-14: helper_method, lexeme by lexeme
helper_method ==
    << NL,
       "        private SolidColorBrush ", GET, "string resourceKey, Brush fallback)", NL,
       "        {", NL,
       "            var brush = Application.Current?.Resources", LB, "resourceKey", RB,
           " as SolidColorBrush;", NL,
       "            return brush ?? (fallback as SolidColorBrush) ?? Brushes.Gray;", NL,
       CLOSE, NL,
       NL >>

----------------------------------------------------------------------------
(* Python's re module, for the pattern shapes the script uses *)

Min(S) == CHOOSE x \in S : \A y \in S : x <= y
Max(S) == CHOOSE x \in S : \A y \in S : x >= y

\* a literal piece of a pattern, and a greedy negated class [^c]+
Lit(t) == [kind |-> "lit", tok |-> t]
NotPlus(t) == [kind |-> "notplus", tok |-> t]

\* the number of lexemes from position i on that differ from tok
RunLength(s, i, tok) ==
    LET stops == {j \in i..Len(s) : s[j] = tok}
    IN  IF stops = {} THEN Len(s) - i + 1 ELSE Min(stops) - i

\* The backtracking matcher: elements k.. of elems against s from position
\* i.  The result is <<>> when there is no match, and otherwise the
\* positions <<b_k, ..., b_n, stop>> where each element begins and where the
\* match stops.  [^c]+ takes the longest run that lets the rest match.
RECURSIVE MatchFrom(_, _, _, _)
MatchFrom(elems, k, s, i) ==
    IF k > Len(elems) THEN <<i>>
    ELSE LET e == elems[k] IN
         IF e.kind = "lit"
         THEN IF i <= Len(s) /\ s[i] = e.tok
              THEN LET rest == MatchFrom(elems, k + 1, s, i + 1)
                   IN  IF rest = <<>> THEN <<>> ELSE <<i>> \o rest
              ELSE <<>>
         ELSE LET fits == {n \in 1..RunLength(s, i, e.tok) :
                              MatchFrom(elems, k + 1, s, i + n) # <<>>}
              IN  IF fits = {} THEN <<>>
                  ELSE <<i>> \o MatchFrom(elems, k + 1, s, i + Max(fits))

\* A match object: pat.group is <<>> or <<a, b>>, the elements group 1 spans
MatchAt(pat, s, i) ==
    LET b == MatchFrom(pat.elems, 1, s, i)
        n == Len(pat.elems)
    IN  IF b = <<>> THEN [ok |-> FALSE, start |-> i, stop |-> i, groups |-> <<>>]
        ELSE [ok |-> TRUE, start |-> i, stop |-> b[n + 1],
              groups |-> << SubSeq(s, i, b[n + 1] - 1) >> \o
                  (IF pat.group = <<>> THEN <<>>
                   ELSE << SubSeq(s, b[pat.group[1]], b[pat.group[2] + 1] - 1) >>)]

\* match.group(n)
Group(m, n) == m.groups[n + 1]

\* re.search(pat, s): the leftmost match, or a failed match (None)
ReSearch(pat, s) ==
    LET hits == {i \in 1..Len(s) : MatchAt(pat, s, i).ok}
    IN  IF hits = {} THEN MatchAt(pat, s, Len(s) + 1) ELSE MatchAt(pat, s, Min(hits))

\* a replacement template: backreferences \n and literal lexemes
Ref(n) == [kind |-> "ref", n |-> n]
RECURSIVE Expand(_, _)
Expand(template, m) ==
    IF template = <<>> THEN <<>>
    ELSE (IF Head(template).kind = "ref" THEN Group(m, Head(template).n)
          ELSE <<Head(template).tok>>) \o Expand(Tail(template), m)

----------------------------------------------------------------------------
(* The script *)

\* line 17: pattern = r"(            _updateCheckTimer\.Start\(\);\n        \})"
pattern_anchor == [elems |-> <<Lit(TIMER), Lit(NL), Lit(CLOSE)>>, group |-> <<1, 3>>]

\* the template with the backreference left out
replacement_without_group == [i \in 1..Len(helper_method) |-> Lit(helper_method[i])]

\* line 18: replacement = r"\1" + helper_method
replacement == <<Ref(1)>> \o [i \in 1..Len(helper_method) |-> Lit(helper_method[i])]

\* the key pattern with the group opened one character early: r'\[("[^"]+)"\]'
pattern_key_wide ==
    [elems |-> <<Lit(LB), Lit(QUOTE), NotPlus(QUOTE), Lit(QUOTE), Lit(RB)>>,
     group |-> <<2, 3>>]

\* line 27: r'\["([^"]+)"\]'
pattern_key == [elems |-> <<Lit(LB), Lit(QUOTE), NotPlus(QUOTE), Lit(QUOTE), Lit(RB)>>,
                group |-> <<3, 3>>]

\* line 30: f'GetThemeBrush("{key}", Brushes.Gray)'
Render(key) == <<GET, QUOTE>> \o key \o <<QUOTE, GRAY>>

\* lines 24-31
replace_resource(match) ==
    LET full_match == Group(match, 0)
        key_match == ReSearch(pattern_key, full_match)
    IN  IF key_match.ok THEN Render(Group(key_match, 1)) ELSE full_match

\* line 34: r'\(SolidColorBrush\)Application\.Current\.Resources\["[^"]+"\]'
pattern_resource ==
    [elems |-> <<Lit(CAST), Lit(LB), Lit(QUOTE), NotPlus(QUOTE), Lit(QUOTE), Lit(RB)>>,
     group |-> <<>>]

\* re.sub takes a template string or a function as repl: what it puts for
\* the match m
Replacement(repl, m) ==
    IF repl.kind = "template" THEN Expand(repl.template, m)
    ELSE replace_resource(m)

\* re.sub(pat, repl, s, count): one scan from the left.  From position i the
\* scan finds the leftmost position at which pat matches, copies the text
\* before it, puts the replacement for the match and goes on behind the
\* match; when nothing matches any more the rest is copied.  count = 0
\* replaces every match, count = c > 0 the first c.  (Neither pattern of the
\* script matches the empty string.)
ReSub(pat, repl, s, count) ==
    LET scan[i \in 1..(Len(s) + 1), done \in 0..Len(s)] ==
            LET hits == IF count > 0 /\ done >= count THEN {}
                        ELSE {j \in i..Len(s) : MatchAt(pat, s, j).ok}
            IN  IF hits = {} THEN SubSeq(s, i, Len(s))
                ELSE LET m == MatchAt(pat, s, Min(hits))
                     IN  SubSeq(s, i, m.start - 1) \o Replacement(repl, m)
                             \o scan[m.stop, done + 1]
    IN  scan[1, 0]

\* line 19 with the substitution limited to the first match (count = 1)
InsertHelperFirstOnly(text) ==
    ReSub(pattern_anchor, [kind |-> "template", template |-> replacement], text, 1)

\* line 19: re.sub(pattern, replacement, content)
InsertHelper(text) ==
    ReSub(pattern_anchor, [kind |-> "template", template |-> replacement], text, 0)

\* line 35 with the substitution limited to the first match (count = 1)
RewriteLookupsFirstOnly(text) ==
    ReSub(pattern_resource, [kind |-> "function", template |-> <<>>], text, 1)

\* line 35: re.sub(pattern, replace_resource, content)
RewriteLookups(text) ==
    ReSub(pattern_resource, [kind |-> "function", template |-> <<>>], text, 0)

----------------------------------------------------------------------------
(* Inputs *)

\* the number of pieces an input file is put together from
MaxChunks == 3
\* the number of times the script is run on the file
MaxRuns == 2

Anchor == <<TIMER, NL, CLOSE>>
Lookup(key) == <<CAST, LB, QUOTE>> \o key \o <<QUOTE, RB>>

\* the pieces: single lexemes, the anchor and a part of it, lookups with
\* plain and unusual keys, and the two ends of a lookup
Chunks ==
    { <<CHA>>, <<NL>>, <<QUOTE>>, <<RB>>, <<TIMER, NL>>,
      Anchor,
      Lookup(<<CHA>>), Lookup(<<CHB>>), Lookup(<<CHA, BSL, CHB>>),
      Lookup(<<CAST, LB>>), Lookup(Anchor),
      <<CAST, LB, QUOTE>>, <<QUOTE, RB>> }

RECURSIVE Concat(_)
Concat(ss) == IF ss = <<>> THEN <<>> ELSE Head(ss) \o Concat(Tail(ss))

Inputs == { Concat(cs) : cs \in UNION { [1..n -> Chunks] : n \in 0..MaxChunks } }

----------------------------------------------------------------------------
(* State *)

VARIABLES
    file,      \* the text of AIConsumptionTracker.UI/MainWindow.xaml.cs
    content,   \* the script's variable content
    pc,        \* the statement the script is at
    stdout,    \* what the current run has printed
    status,    \* "running", or how the run ended
    history    \* per run, the values content took and whether the file was written

vars == <<file, content, pc, stdout, status, history>>

Run == [source |-> <<>>, spliced |-> <<>>, rewritten |-> <<>>, wrote |-> FALSE]

\* the record of the current run, with one field set
Note(field, value) ==
    [history EXCEPT ![Len(history)] = [@ EXCEPT ![field] = value]]

Init ==
    /\ file \in Inputs
    /\ content = <<>>
    /\ pc = "read"
    /\ stdout = <<>>
    /\ status = "running"
    /\ history = <<>>

\* lines 3-4
Read ==
    /\ pc = "read"
    /\ content' = file
    /\ history' = Append(history, [Run EXCEPT !.source = file])
    /\ pc' = "insert"
    /\ UNCHANGED <<file, stdout, status>>

\* lines 17-19
Insert ==
    /\ pc = "insert"
    /\ content' = InsertHelper(content)
    /\ history' = Note("spliced", content')
    /\ pc' = "substitute"
    /\ UNCHANGED <<file, stdout, status>>

\* lines 34-35
Substitute ==
    /\ pc = "substitute"
    /\ content' = RewriteLookups(content)
    /\ history' = Note("rewritten", content')
    /\ pc' = "write"
    /\ UNCHANGED <<file, stdout, status>>

\* lines 37-38
Write ==
    /\ pc = "write"
    /\ file' = content
    /\ history' = Note("wrote", TRUE)
    /\ pc' = "print"
    /\ UNCHANGED <<content, stdout, status>>

\* line 40, and the end of the script
PrintDone ==
    /\ pc = "print"
    /\ stdout' = Append(stdout, "Done")
    /\ status' = "ok"
    /\ pc' = "exit"
    /\ UNCHANGED <<file, content, history>>

\* the script is started again on the file it left
Rerun ==
    /\ pc = "exit"
    /\ Len(history) < MaxRuns
    /\ content' = <<>>
    /\ stdout' = <<>>
    /\ status' = "running"
    /\ pc' = "read"
    /\ UNCHANGED <<file, history>>

Next == Read \/ Insert \/ Substitute \/ Write \/ PrintDone \/ Rerun

Spec == Init /\ [][Next]_vars

----------------------------------------------------------------------------
(* What the properties are stated with.  These definitions read a text     *)
(* directly, lexeme by lexeme; none of them uses the matcher above.        *)

\* the offsets at which a match of the anchor ends
AnchorEnds(s) ==
    {i + 2 : i \in {j \in 1..(Len(s) - 2) :
                        s[j] = TIMER /\ s[j + 1] = NL /\ s[j + 2] = CLOSE}}

\* text[0:o] + block + text[o:end]
InsertAt(s, o, block) == SubSeq(s, 1, o) \o block \o SubSeq(s, o + 1, Len(s))

\* block inserted at every offset of offs
RECURSIVE InsertAll(_, _, _)
InsertAll(s, offs, block) ==
    IF offs = {} THEN s
    ELSE InsertAll(InsertAt(s, Max(offs), block), offs \ {Max(offs)}, block)

\* s holds the lexemes of block from position at on
HoldsAt(s, at, block) ==
    /\ 1 <= at
    /\ at + Len(block) - 1 <= Len(s)
    /\ SubSeq(s, at, at + Len(block) - 1) = block

\* the positions at which block occurs in s
BlockStarts(s, block) == {i \in 1..Len(s) : HoldsAt(s, i, block)}

\* the position of the first double quote of s at or after position p, or 0
NextQuote(s, p) ==
    LET quotes == {q \in p..Len(s) : s[q] = QUOTE}
    IN  IF quotes = {} THEN 0 ELSE Min(quotes)

\* <<i, j>>: s[i..j] is (SolidColorBrush)Application.Current.Resources["KEY"]
\* with a KEY of one or more lexemes, none of them a double quote
Occurrences(s) ==
    {<<i, NextQuote(s, i + 3) + 1>> : i \in
        {i \in 1..(Len(s) - 5) :
            /\ s[i] = CAST /\ s[i + 1] = LB /\ s[i + 2] = QUOTE
            /\ NextQuote(s, i + 3) > i + 3
            /\ NextQuote(s, i + 3) < Len(s)
            /\ s[NextQuote(s, i + 3) + 1] = RB}}

\* the occurrences a scan from the left takes, in order: the leftmost one
\* that begins at or after position from, then those behind its end
RECURSIVE Leftmost(_, _)
Leftmost(occs, from) ==
    LET later == {span \in occs : span[1] >= from}
    IN  IF later = {} THEN <<>>
        ELSE LET first == CHOOSE span \in later : \A other \in later : span[1] <= other[1]
             IN  <<first>> \o Leftmost(occs, first[2] + 1)

Replaced(s) == Leftmost(Occurrences(s), 1)

\* the key of an occurrence
KeyOf(s, span) == SubSeq(s, span[1] + 3, span[2] - 2)

\* <<i, j>>: s[i..j] is GetThemeBrush("KEY", Brushes.Gray)
Rendered(s) ==
    {<<i, NextQuote(s, i + 2) + 1>> : i \in
        {i \in 1..(Len(s) - 4) :
            /\ s[i] = GET /\ s[i + 1] = QUOTE
            /\ NextQuote(s, i + 2) > i + 2
            /\ NextQuote(s, i + 2) < Len(s)
            /\ s[NextQuote(s, i + 2) + 1] = GRAY}}

\* the number of positions of s that hold the lexeme t
Count(s, t) == Cardinality({p \in 1..Len(s) : s[p] = t})

\* s ends with the lexemes of tail
EndsWith(s, tail) ==
    Len(s) >= Len(tail) /\ SubSeq(s, Len(s) - Len(tail) + 1, Len(s)) = tail

\* the run the script is in, or was in last
Now == history[Len(history)]

----------------------------------------------------------------------------
(* C1 *)

\* C1: when the anchor matches exactly once in the text read, ending at
\* offset o, the text after line 19 is text[0:o] + helper_method + text[o:end]
\* and is longer than the text read by exactly the length of helper_method.
C1_InsertionExact ==
    (pc = "substitute" /\ Cardinality(AnchorEnds(Now.source)) = 1) =>
        \A o \in AnchorEnds(Now.source) :
            /\ content = SubSeq(Now.source, 1, o) \o helper_method
                             \o SubSeq(Now.source, o + 1, Len(Now.source))
            /\ Len(content) = Len(Now.source) + Len(helper_method)

\* line 19 has run on a text with one anchor match and text on both sides
\* of the match
C1_Witness ==
    /\ pc = "substitute"
    /\ Cardinality(AnchorEnds(Now.source)) = 1
    /\ \E o \in AnchorEnds(Now.source) : 3 < o /\ o < Len(Now.source)
    /\ content # Now.source

----------------------------------------------------------------------------
(* C9 *)

----------------------------------------------------------------------------
(* C4, C5 *)

\* C4: a run that reads a text without an anchor match ends in the failure
\* AnchorNotFound, leaves the text as read, and never writes the file.
C4_NoAnchorFails ==
    (Len(history) > 0 /\ pc # "read" /\ AnchorEnds(Now.source) = {}) =>
        /\ ~Now.wrote
        /\ pc = "exit" => (status = "AnchorNotFound" /\ content = Now.source)

\* C5: a run that reads a text with two or more anchor matches ends in the
\* failure AnchorAmbiguous, inserts nothing, and never writes the file.
C5_AmbiguityFails ==
    (Len(history) > 0 /\ pc # "read" /\ Cardinality(AnchorEnds(Now.source)) >= 2) =>
        /\ ~Now.wrote
        /\ pc = "substitute" => content = Now.source
        /\ pc = "exit" => status = "AnchorAmbiguous"

----------------------------------------------------------------------------
(* C2 *)

\* C2 as stated: when the text handed to line 35 holds N occurrences of the
\* lookup (as the scan from the left takes them), the text after line 35
\* holds exactly N rendered replacements (N more than the text held
\* before), one per occurrence and in the same order, and no occurrence of
\* the lookup at all.
C2_NoneRemains ==
    pc = "write" =>
        LET occ == Replaced(Now.spliced)
        IN  /\ Cardinality(Rendered(content))
                   = Cardinality(Rendered(Now.spliced)) + Len(occ)
            /\ \A n \in 1..Len(occ) :
                   <<occ[n][1] - (n - 1), occ[n][2] - n>> \in Rendered(content)
            /\ Occurrences(content) = {}

\* C2 as amended: the same, but no occurrence of the lookup remains only
\* when no replaced key ends with (SolidColorBrush)Application.Current.Resources[
C2_NoneRemainsUnlessKeyEndsInLookup ==
    pc = "write" =>
        LET occ == Replaced(Now.spliced)
        IN  /\ Cardinality(Rendered(content))
                   = Cardinality(Rendered(Now.spliced)) + Len(occ)
            /\ \A n \in 1..Len(occ) :
                   <<occ[n][1] - (n - 1), occ[n][2] - n>> \in Rendered(content)
            /\ (\A n \in 1..Len(occ) : ~EndsWith(KeyOf(Now.spliced, occ[n]), <<CAST, LB>>))
                   => Occurrences(content) = {}

\* line 35 has rewritten a text with two or more occurrences
C2_Witness ==
    /\ pc = "write"
    /\ Len(Replaced(Now.spliced)) >= 2
    /\ Occurrences(content) = {}
    /\ content # Now.spliced

----------------------------------------------------------------------------
(* C3 *)

\* C3: every occurrence that line 35 replaces, with key K, is replaced by
\* exactly GetThemeBrush("K", Brushes.Gray), K being the key of that very
\* occurrence: the n-th replaced span, moved left by the n - 1 lexemes the
\* earlier replacements saved, holds these lexemes, and the text is shorter
\* by the one lexeme each replacement saves and by nothing else.
C3_KeyFidelity ==
    pc = "write" =>
        LET occ == Replaced(Now.spliced)
        IN  /\ Len(content) = Len(Now.spliced) - Len(occ)
            /\ \A n \in 1..Len(occ) :
                   HoldsAt(content, occ[n][1] - (n - 1),
                           <<GET, QUOTE>> \o KeyOf(Now.spliced, occ[n]) \o <<QUOTE, GRAY>>)

\* line 35 has replaced two occurrences with different keys
C3_Witness ==
    /\ pc = "write"
    /\ Len(Replaced(Now.spliced)) >= 2
    /\ KeyOf(Now.spliced, Replaced(Now.spliced)[1]) # KeyOf(Now.spliced, Replaced(Now.spliced)[2])

----------------------------------------------------------------------------
(* C10 *)

\* a key as a string literal needs it: every backslash doubled
RECURSIVE Escaped(_)
Escaped(key) ==
    IF key = <<>> THEN <<>>
    ELSE (IF Head(key) = BSL THEN <<BSL, BSL>> ELSE <<Head(key)>>) \o Escaped(Tail(key))

\* C10: a replaced occurrence whose key holds a backslash is rendered with
\* the key escaped, not with the key as it stands in the match.  (Stated
\* for the first replaced occurrence, whose place no earlier one moves.)
C10_KeyEscaped ==
    pc = "write" =>
        LET occ == Replaced(Now.spliced)
        IN  (Len(occ) >= 1 /\ Count(KeyOf(Now.spliced, occ[1]), BSL) > 0) =>
                HoldsAt(content, occ[1][1],
                        <<GET, QUOTE>> \o Escaped(KeyOf(Now.spliced, occ[1])) \o <<QUOTE, GRAY>>)

----------------------------------------------------------------------------
(* C6 *)

\* C6: when a run follows a run whose input had exactly one anchor match,
\* it either ends in AnchorAmbiguous or leaves the file as the first run
\* wrote it, and the file never holds helper_method twice.
C6_SecondRunPolicy ==
    (pc = "exit" /\ Len(history) >= 2
        /\ Cardinality(AnchorEnds(history[Len(history) - 1].source)) = 1) =>
        /\ status = "AnchorAmbiguous" \/ file = history[Len(history) - 1].rewritten
        /\ Cardinality(BlockStarts(file, helper_method)) <= 1

----------------------------------------------------------------------------
(* C7 *)

\* s with each span of occ (a sequence of occurrences, from left to right)
\* replaced by GetThemeBrush("KEY", Brushes.Gray), KEY its key
RECURSIVE RewriteSpans(_, _)
RewriteSpans(s, occ) ==
    IF occ = <<>> THEN s
    ELSE LET span == occ[Len(occ)]
         IN  RewriteSpans(SubSeq(s, 1, span[1] - 1)
                              \o <<GET, QUOTE>> \o KeyOf(s, span) \o <<QUOTE, GRAY>>
                              \o SubSeq(s, span[2] + 1, Len(s)),
                          SubSeq(occ, 1, Len(occ) - 1))

\* C7: the file a run leaves is the text it read with helper_method inserted
\* exactly once, right behind the anchor, and with each lookup replaced by
\* its rendering; everything else stands as it was, in its order.
C7_Frame ==
    pc = "exit" =>
        \E o \in AnchorEnds(Now.source) :
            LET inserted == InsertAt(Now.source, o, helper_method)
            IN  file = RewriteSpans(inserted, Replaced(inserted))

----------------------------------------------------------------------------
(* C8 *)

\* C8: in a run on a text with one anchor match, ending at offset o, the
\* text line 35 works on already holds helper_method behind o, no
\* occurrence of the lookup begins or ends inside these lexemes, and the
\* file written holds helper_method lexeme for lexeme (moved left by one
\* lexeme for each replacement that begins before it).
C8_HelperIntact ==
    (pc = "exit" /\ Cardinality(AnchorEnds(Now.source)) = 1) =>
        \A o \in AnchorEnds(Now.source) :
            LET block == (o + 1)..(o + Len(helper_method))
                before == {n \in 1..Len(Replaced(Now.spliced)) :
                              Replaced(Now.spliced)[n][1] <= o}
                at == o - Cardinality(before)
            IN  /\ HoldsAt(Now.spliced, o + 1, helper_method)
                /\ \A span \in Occurrences(Now.spliced) :
                       span[1] \notin block /\ span[2] \notin block
                /\ Now.wrote
                /\ HoldsAt(file, at + 1, helper_method)

\* a run has ended whose text had one anchor match, a lookup before it and
\* a lookup behind it
C8_Witness ==
    /\ pc = "exit"
    /\ Cardinality(AnchorEnds(Now.source)) = 1
    /\ \E o \in AnchorEnds(Now.source) :
           /\ \E span \in Occurrences(Now.spliced) : span[2] < o
           /\ \E span \in Occurrences(Now.spliced) : span[1] > o

=============================================================================
